---- MODULE Spec2Model ----
(***************************************************************************)
(* The concurrent ledger of shared_state_demo/src/main.rs under its three  *)
(* coordination strategies:                                                *)
(*   "basic"  BasicBank   (std::sync::Mutex, run_basic_mutex_example)      *)
(*   "async"  AsyncBank   (tokio::sync::Mutex held across a sleep,         *)
(*                         run_async_mutex_example)                        *)
(*   "actor"  the manager task of run_message_passing_example, fed through *)
(*            an mpsc inbox and answering on per-request oneshot channels. *)
(* One behaviour is one run of one example.  The examples' literals (three *)
(* callers, "Alice", 50) are generalised to inputs drawn in Init.          *)
(***************************************************************************)
EXTENDS Integers, Sequences, FiniteSets, TLC

\* ------------------------------------------------------------------ bounds
MaxCallers == 3

\* ------------------------------------------------------- program constants
SeedBalance == 100
ChannelCapacity == 32
I32Max == 2147483647
I32Min == -I32Max - 1
NumTasks == 5            \* spawn_demo: for i in 0..5 { tokio::spawn(...) }
NumValues == 5           \* spawn_demo: for i in 0..5 { tx.send(i) ... }
DemoChannelCapacity == 32 \* spawn_demo: mpsc::channel(32)

Strategies == {"basic", "async", "actor"}
Amounts == {1, 50, -10}
Accounts == {"Alice", "Bob"}

VARIABLES
    strategy,   \* which example runs
    nCallers,   \* number of spawned caller / client tasks
    amount,     \* the amount every caller deposits
    seed,       \* the ledger the bank / the manager starts with
    overflowChecks, \* the build panics on integer overflow (debug profile)
    acct,       \* acct[i]: the account identifier caller i names
    accounts,   \* the ledger: HashMap<String, i32>
    dpc,        \* the driver's position (the run_*_example function)
    spawned,    \* number of tasks the driver has spawned so far
    joined,     \* number of JoinHandles the driver has awaited so far
    pc,         \* pc[i]: position of caller task i
    lockOwner,  \* holder of the Mutex guard, 0 when the lock is free
    loaded,     \* loaded[i]: what get_mut gave caller i (lock strategies)
    poisoned,   \* the std Mutex is poisoned: a holder panicked
    result,     \* result[i]: the Result<i32, _> caller i received
    inbox,      \* the mpsc channel's queue of BankMessage::Deposit
    mpc,        \* the manager task's position
    cur,        \* the message the manager is processing
    ch,         \* ch[i]: state of caller i's oneshot reply channel
    chVal,      \* chVal[i]: the value sitting in caller i's oneshot
    enqOrder,   \* history: callers in the order their requests were enqueued
    served,     \* history: callers in the order their lookup-and-update ran
    replied,    \* history: callers in the order the manager sent replies
    observed    \* history: callers in the order they resumed with an outcome

\* spawn_demo, shared_state_example
VARIABLES
    counter,    \* the i32 inside Arc<Mutex<_>>
    lock,       \* holder of the tokio MutexGuard, Free when nobody holds it
    taskPc,     \* taskPc[i]: position of spawned task i
    taskTmp,    \* taskTmp[i]: the value task i read for *lock += 1
    taskSaw,    \* taskSaw[i]: the value task i printed, 0 before it prints
    ssPc,       \* position of shared_state_example itself
    handles,    \* number of JoinHandles pushed so far
    awaited,    \* number of JoinHandles awaited so far
    final_count \* the value read at the end, -1 before it is read

\* spawn_demo, channel_example
VARIABLES
    queue,      \* the mpsc channel's buffer
    prodPc,     \* position of the producer task
    prodI,      \* the producer's loop variable i
    consPc,     \* position of the consumer task
    received,   \* history: the values rx.recv() returned, in order
    sent,       \* history: the values tx.send() accepted, in order
    backlog,    \* history: the greatest length the buffer has had
    chPc        \* position of channel_example itself

counterVars == <<counter, lock, taskPc, taskTmp, taskSaw, ssPc, handles,
                 awaited, final_count>>
channelVars == <<queue, prodPc, prodI, consPc, received, sent, backlog, chPc>>
demoVars == <<counterVars, channelVars>>

vars == <<strategy, nCallers, amount, seed, overflowChecks, acct, accounts, dpc,
          spawned, joined, pc, lockOwner, loaded, poisoned, result, inbox, mpc,
          cur, ch, chVal,
          enqOrder, served, replied, observed, counterVars, channelVars>>

inputs == <<strategy, nCallers, amount, seed, overflowChecks, acct>>
lockVars == <<lockOwner, loaded, poisoned>>
actorVars == <<inbox, mpc, cur, ch, chVal, enqOrder, replied, observed>>
driverVars == <<dpc, spawned, joined>>
bankVars == <<inputs, accounts, driverVars, pc, lockVars, result, actorVars,
              served>>

Callers == 1..nCallers

\* ---------------------------------------------------------------- outcomes
NoResult == [kind |-> "none", bal |-> 0]
NotFound == [kind |-> "notfound", bal |-> 0]
Ok(b) == [kind |-> "ok", bal |-> b]

NoMsg == [from |-> 0, account |-> "", amount |-> 0]

\* BasicBank::new / AsyncBank::new / the manager's first two statements
NewAccounts == [a \in {"Alice"} |-> SeedBalance]

\* mutant: accounts.entry(account).or_insert(0) in place of get_mut
GetMutOrInsert(ledger, a) ==
    [found |-> TRUE, bal |-> IF a \in DOMAIN ledger THEN ledger[a] ELSE 0]

\* accounts.get_mut(account): Some(balance) or None
GetMut(ledger, a) ==
    IF a \in DOMAIN ledger
    THEN [found |-> TRUE, bal |-> ledger[a]]
    ELSE [found |-> FALSE, bal |-> 0]

\* balance + amt leaves the range of i32
Overflows(balance, amt) ==
    \/ amt > 0 /\ balance > I32Max - amt
    \/ amt < 0 /\ balance < I32Min - amt

\* *balance += amount: the sum, as i32 arithmetic gives it when the build
\* does not check for overflow (two's complement wrap-around) ...
AddAssign(balance, amt) ==
    IF amt > 0 /\ balance > I32Max - amt
    THEN I32Min + (balance - (I32Max - amt) - 1)
    ELSE IF amt < 0 /\ balance < I32Min - amt
         THEN I32Max - ((I32Min - amt) - balance - 1)
         ELSE balance + amt

\* mutant: the map is rebuilt from the one updated entry
StoreAlone(ledger, a, v) == [x \in {a} |-> v]

\* ... written back through the &mut i32 that get_mut returned
Store(ledger, a, v) ==
    [x \in DOMAIN ledger \cup {a} |-> IF x = a THEN v ELSE ledger[x]]

\* The state after the example has built its bank (or its channel and
\* manager), for a seed ledger, the identifiers and the amounts callers use.
\* spawn_demo's tasks are 0..4; the lock is held by one of them, by
\* shared_state_example itself, or by nobody
Tasks == 0..(NumTasks - 1)
Free == -1
MainFn == NumTasks

\* let counter = Arc::new(Mutex::new(0)); let mut handles = vec![];
CounterInit ==
    /\ counter = 0
    /\ lock = Free
    /\ taskPc = [i \in Tasks |-> "unspawned"]
    /\ taskTmp = [i \in Tasks |-> 0]
    /\ taskSaw = [i \in Tasks |-> 0]
    /\ ssPc = "spawn"
    /\ handles = 0
    /\ awaited = 0
    /\ final_count = -1

\* let (tx, mut rx) = tokio::sync::mpsc::channel(32);
ChannelInit ==
    /\ queue = <<>>
    /\ prodPc = "unspawned"
    /\ prodI = 0
    /\ consPc = "unspawned"
    /\ received = <<>>
    /\ sent = <<>>
    /\ backlog = 0
    /\ chPc = "spawnP"

\* The bank examples and spawn_demo are separate programs: a run of the one
\* leaves the other's state where its construction put it.
InitWith(ledger, names, amts) ==
    /\ CounterInit
    /\ ChannelInit
    /\ strategy \in Strategies
    /\ nCallers \in 1..MaxCallers
    /\ amount \in amts
    /\ seed = ledger
    /\ overflowChecks \in BOOLEAN
    /\ acct \in [1..nCallers -> names]
    /\ accounts = ledger
    /\ dpc = "spawn"
    /\ spawned = 0
    /\ joined = 0
    /\ pc = [i \in 1..nCallers |-> "unspawned"]
    /\ lockOwner = 0
    /\ poisoned = FALSE
    /\ loaded = [i \in 1..nCallers |-> [found |-> FALSE, bal |-> 0]]
    /\ result = [i \in 1..nCallers |-> NoResult]
    /\ inbox = <<>>
    /\ mpc = IF strategy = "actor" THEN "recv" ELSE "none"
    /\ cur = NoMsg
    /\ ch = [i \in 1..nCallers |-> "none"]
    /\ chVal = [i \in 1..nCallers |-> NoResult]
    /\ enqOrder = <<>>
    /\ served = <<>>
    /\ replied = <<>>
    /\ observed = <<>>

Init == InitWith(NewAccounts, Accounts, Amounts)

\* ------------------------------------------------------------------ driver
\* The first position of a freshly spawned task.
TaskEntry == IF strategy = "actor" THEN "send" ELSE "lock"

\* for i in 0..3 { ... handles.push(tokio::spawn(...)) }
Spawn ==
    /\ dpc = "spawn"
    /\ spawned < nCallers
    /\ spawned' = spawned + 1
    /\ pc' = [pc EXCEPT ![spawned + 1] = TaskEntry]
    /\ dpc' = IF spawned + 1 = nCallers THEN "join" ELSE "spawn"
    /\ UNCHANGED <<demoVars, inputs, accounts, joined, lockVars, result, actorVars, served>>

\* for handle in handles { handle.await.unwrap(); }
Join ==
    /\ dpc = "join"
    /\ joined < nCallers
    /\ pc[joined + 1] \in {"done", "panicked"}
    /\ IF pc[joined + 1] = "panicked"
       THEN /\ dpc' = "panicked"
            /\ joined' = joined
       ELSE /\ joined' = joined + 1
            /\ dpc' = IF joined + 1 < nCallers THEN "join"
                      ELSE IF strategy = "actor" THEN "drop" ELSE "done"
    /\ UNCHANGED <<demoVars, inputs, accounts, spawned, pc, lockVars, result, actorVars, served>>

\* drop(tx)
DropTx ==
    /\ dpc = "drop"
    /\ dpc' = "await_manager"
    /\ UNCHANGED <<demoVars, inputs, accounts, spawned, joined, pc, lockVars, result,
                   actorVars, served>>

\* manager.await.unwrap()
AwaitManager ==
    /\ dpc = "await_manager"
    /\ mpc \in {"stopped", "panicked"}
    /\ dpc' = IF mpc = "stopped" THEN "done" ELSE "panicked"
    /\ UNCHANGED <<demoVars, inputs, accounts, spawned, joined, pc, lockVars, result,
                   actorVars, served>>

\* ------------------------------------------- Example 1: BasicBank::deposit
\* mutant: the lock is taken without waiting for its holder to release it
BasicLockNoWait(i) ==
    /\ strategy = "basic"
    /\ pc[i] = "lock"
    /\ lockOwner' = i
    /\ pc' = [pc EXCEPT ![i] = "get"]
    /\ UNCHANGED <<demoVars, inputs, accounts, driverVars, loaded, poisoned, result, actorVars, served>>

\* self.accounts.lock().unwrap(): blocks the thread until the lock is free,
\* and panics when a holder has panicked before
BasicLock(i) ==
    /\ strategy = "basic"
    /\ pc[i] = "lock"
    /\ lockOwner = 0
    /\ IF poisoned
       THEN \* lock() gives Err(PoisonError), unwrap() panics
            /\ pc' = [pc EXCEPT ![i] = "panicked"]
            /\ lockOwner' = lockOwner
       ELSE /\ lockOwner' = i
            /\ pc' = [pc EXCEPT ![i] = "get"]
    /\ UNCHANGED <<demoVars, inputs, accounts, driverVars, loaded, poisoned, result, actorVars, served>>

\* if let Some(balance) = accounts.get_mut(account) ... else Err(..)
BasicGet(i) ==
    /\ strategy = "basic"
    /\ pc[i] = "get"
    /\ loaded' = [loaded EXCEPT ![i] = GetMut(accounts, acct[i])]
    /\ served' = Append(served, i)
    /\ IF loaded'[i].found
       THEN /\ pc' = [pc EXCEPT ![i] = "add"]
            /\ result' = result
       ELSE /\ pc' = [pc EXCEPT ![i] = "ret"]
            /\ result' = [result EXCEPT ![i] = NotFound]
    /\ UNCHANGED <<demoVars, inputs, accounts, driverVars, lockOwner, poisoned, actorVars>>

\* *balance += amount; Ok(*balance)
BasicAdd(i) ==
    /\ strategy = "basic"
    /\ pc[i] = "add"
    /\ IF overflowChecks /\ Overflows(loaded[i].bal, amount)
       THEN \* "attempt to add with overflow": the task panics, unwinding
            \* drops the guard and poisons the mutex
            /\ pc' = [pc EXCEPT ![i] = "panicked"]
            /\ lockOwner' = 0
            /\ poisoned' = TRUE
            /\ UNCHANGED <<accounts, result, loaded>>
       ELSE /\ accounts' = Store(accounts, acct[i], AddAssign(loaded[i].bal, amount))
            /\ result' = [result EXCEPT ![i] = Ok(accounts'[acct[i]])]
            /\ pc' = [pc EXCEPT ![i] = "ret"]
            /\ UNCHANGED lockVars
    /\ UNCHANGED <<demoVars, inputs, driverVars, actorVars, served>>

\* mutant: the Err path returns with the lock still held
BasicReturnLeak(i) ==
    /\ strategy = "basic"
    /\ pc[i] = "ret"
    /\ lockOwner' = IF result[i] = NotFound THEN lockOwner ELSE 0
    /\ pc' = [pc EXCEPT ![i] = "done"]
    /\ UNCHANGED <<demoVars, inputs, accounts, driverVars, loaded, poisoned, result, actorVars, served>>

\* the guard goes out of scope as deposit returns; the task logs and ends
BasicReturn(i) ==
    /\ strategy = "basic"
    /\ pc[i] = "ret"
    /\ lockOwner' = 0
    /\ pc' = [pc EXCEPT ![i] = "done"]
    /\ UNCHANGED <<demoVars, inputs, accounts, driverVars, loaded, poisoned, result, actorVars, served>>

\* ----------------------------------- Example 2: AsyncBank::process_deposit
\* mutant: lock().await returns without waiting for the holder to release
AsyncLockNoWait(i) ==
    /\ strategy = "async"
    /\ pc[i] = "lock"
    /\ lockOwner' = i
    /\ pc' = [pc EXCEPT ![i] = "sleep"]
    /\ UNCHANGED <<demoVars, inputs, accounts, driverVars, loaded, poisoned, result, actorVars, served>>

\* self.accounts.lock().await: the task is suspended until the lock is free
AsyncLock(i) ==
    /\ strategy = "async"
    /\ pc[i] = "lock"
    /\ lockOwner = 0
    /\ lockOwner' = i
    /\ pc' = [pc EXCEPT ![i] = "sleep"]
    /\ UNCHANGED <<demoVars, inputs, accounts, driverVars, loaded, poisoned, result, actorVars, served>>

\* sleep(Duration::from_millis(200)).await, the guard still held
AsyncSleep(i) ==
    /\ strategy = "async"
    /\ pc[i] = "sleep"
    /\ pc' = [pc EXCEPT ![i] = "get"]
    /\ UNCHANGED <<demoVars, inputs, accounts, driverVars, lockVars, result, actorVars, served>>

\* if let Some(balance) = accounts.get_mut(account) ... else Err(..)
AsyncGet(i) ==
    /\ strategy = "async"
    /\ pc[i] = "get"
    /\ loaded' = [loaded EXCEPT ![i] = GetMut(accounts, acct[i])]
    /\ served' = Append(served, i)
    /\ IF loaded'[i].found
       THEN /\ pc' = [pc EXCEPT ![i] = "add"]
            /\ result' = result
       ELSE /\ pc' = [pc EXCEPT ![i] = "ret"]
            /\ result' = [result EXCEPT ![i] = NotFound]
    /\ UNCHANGED <<demoVars, inputs, accounts, driverVars, lockOwner, poisoned, actorVars>>

\* mutant: the balance read before the update is returned
AsyncAddStale(i) ==
    /\ strategy = "async"
    /\ pc[i] = "add"
    /\ accounts' = Store(accounts, acct[i], AddAssign(loaded[i].bal, amount))
    /\ result' = [result EXCEPT ![i] = Ok(loaded[i].bal)]
    /\ pc' = [pc EXCEPT ![i] = "ret"]
    /\ UNCHANGED <<demoVars, inputs, driverVars, lockVars, actorVars, served>>

\* *balance += amount; Ok(*balance)
AsyncAdd(i) ==
    /\ strategy = "async"
    /\ pc[i] = "add"
    /\ IF overflowChecks /\ Overflows(loaded[i].bal, amount)
       THEN \* "attempt to add with overflow": the task panics, unwinding
            \* drops the guard (a tokio Mutex is not poisoned)
            /\ pc' = [pc EXCEPT ![i] = "panicked"]
            /\ lockOwner' = 0
            /\ UNCHANGED <<accounts, result, loaded, poisoned>>
       ELSE /\ accounts' = Store(accounts, acct[i], AddAssign(loaded[i].bal, amount))
            /\ result' = [result EXCEPT ![i] = Ok(accounts'[acct[i]])]
            /\ pc' = [pc EXCEPT ![i] = "ret"]
            /\ UNCHANGED lockVars
    /\ UNCHANGED <<demoVars, inputs, driverVars, actorVars, served>>

\* mutant: the guard is kept (mem::forget) when process_deposit returns
AsyncReturnKeep(i) ==
    /\ strategy = "async"
    /\ pc[i] = "ret"
    /\ lockOwner' = lockOwner
    /\ pc' = [pc EXCEPT ![i] = "done"]
    /\ UNCHANGED <<demoVars, inputs, accounts, driverVars, loaded, poisoned, result, actorVars, served>>

\* the guard goes out of scope as process_deposit returns; the task logs and ends
AsyncReturn(i) ==
    /\ strategy = "async"
    /\ pc[i] = "ret"
    /\ lockOwner' = 0
    /\ pc' = [pc EXCEPT ![i] = "done"]
    /\ UNCHANGED <<demoVars, inputs, accounts, driverVars, loaded, poisoned, result, actorVars, served>>

\* ------------------------------- Example 3: run_message_passing_example
\* mutant: drop(tx) is left out, the driver's tx lives while it awaits
TxHandlesNoDrop ==
    (IF dpc \in {"spawn", "join", "drop", "await_manager"} THEN 1 ELSE 0)
    + Cardinality({i \in Callers : pc[i] \in {"send", "await"}})

\* Live mpsc::Sender handles: the driver's tx until drop(tx) (or until the
\* driver unwinds), and the clone moved into each client task until it ends.
TxHandles ==
    (IF dpc \in {"spawn", "join", "drop"} THEN 1 ELSE 0)
    + Cardinality({i \in Callers : pc[i] \in {"send", "await"}})

\* The manager task has ended and rx is gone.
RxDropped == mpc \in {"stopped", "panicked"}

\* BankMessage::Deposit { account, amount, respond_to }
DepositMsg(i) == [from |-> i, account |-> acct[i], amount |-> amount]

\* let (resp_tx, resp_rx) = oneshot::channel(); tx.send(..).await.unwrap()
ClientSend(i) ==
    /\ strategy = "actor"
    /\ pc[i] = "send"
    /\ IF RxDropped
       THEN /\ pc' = [pc EXCEPT ![i] = "panicked"]
            /\ UNCHANGED <<inbox, ch, enqOrder>>
       ELSE /\ Len(inbox) < ChannelCapacity
            /\ inbox' = Append(inbox, DepositMsg(i))
            /\ ch' = [ch EXCEPT ![i] = "open"]
            /\ enqOrder' = Append(enqOrder, i)
            /\ pc' = [pc EXCEPT ![i] = "await"]
    /\ UNCHANGED <<demoVars, inputs, accounts, driverVars, lockVars, result, mpc, cur,
                   chVal, served, replied, observed>>

\* match resp_rx.await.unwrap() { Ok(balance) => log, Err(e) => log }
ClientRecv(i) ==
    /\ strategy = "actor"
    /\ pc[i] = "await"
    /\ ch[i] \in {"sent", "txdropped"}
    /\ IF ch[i] = "sent"
       THEN /\ result' = [result EXCEPT ![i] = chVal[i]]
            /\ ch' = [ch EXCEPT ![i] = "read"]
            /\ observed' = Append(observed, i)
            /\ pc' = [pc EXCEPT ![i] = "done"]
       ELSE /\ pc' = [pc EXCEPT ![i] = "panicked"]
            /\ UNCHANGED <<result, ch, observed>>
    /\ UNCHANGED <<demoVars, inputs, accounts, driverVars, lockVars, inbox, mpc, cur,
                   chVal, enqOrder, served, replied>>

\* mutant: the newest message is taken instead of the oldest
MgrRecvNewest ==
    /\ mpc = "recv"
    /\ inbox # <<>>
    /\ cur' = inbox[Len(inbox)]
    /\ inbox' = SubSeq(inbox, 1, Len(inbox) - 1)
    /\ mpc' = "sleep"
    /\ UNCHANGED <<demoVars, inputs, accounts, driverVars, pc, lockVars, result, ch, chVal,
                   enqOrder, served, replied, observed>>

\* mutant: the message is looked at but left in the queue
MgrRecvNoPop ==
    /\ mpc = "recv"
    /\ inbox # <<>>
    /\ cur' = Head(inbox)
    /\ inbox' = inbox
    /\ mpc' = "sleep"
    /\ UNCHANGED <<demoVars, inputs, accounts, driverVars, pc, lockVars, result, ch, chVal,
                   enqOrder, served, replied, observed>>

\* mutant: the next message is taken while the current one is still being
\* worked on (a task spawned per message instead of the sequential loop)
MgrRecvEager ==
    /\ mpc \in {"recv", "sleep"}
    /\ inbox # <<>>
    /\ cur' = Head(inbox)
    /\ inbox' = Tail(inbox)
    /\ mpc' = "sleep"
    /\ UNCHANGED <<demoVars, inputs, accounts, driverVars, pc, lockVars, result, ch, chVal,
                   enqOrder, served, replied, observed>>

\* while let Some(msg) = rx.recv().await: the Some(msg) case
MgrRecv ==
    /\ mpc = "recv"
    /\ inbox # <<>>
    /\ cur' = Head(inbox)
    /\ inbox' = Tail(inbox)
    /\ mpc' = "sleep"
    /\ UNCHANGED <<demoVars, inputs, accounts, driverVars, pc, lockVars, result, ch, chVal,
                   enqOrder, served, replied, observed>>

\* mutant: an empty queue is taken for a closed one (try_recv in place of recv)
InboxClosedWhenEmpty == inbox = <<>>

\* rx.recv() gives None once the queue is empty and every Sender is dropped
InboxClosed == inbox = <<>> /\ TxHandles = 0

\* mutant: the None case is not taken as the end (loop { if let Some(..) })
MgrStopNever ==
    /\ mpc = "recv"
    /\ InboxClosed
    /\ mpc' = "recv"
    /\ UNCHANGED <<demoVars, inputs, accounts, driverVars, pc, lockVars, result, inbox, cur,
                   ch, chVal, enqOrder, served, replied, observed>>

\* while let Some(msg) = rx.recv().await: the None case ends the task
MgrStop ==
    /\ mpc = "recv"
    /\ InboxClosed
    /\ mpc' = "stopped"
    /\ UNCHANGED <<demoVars, inputs, accounts, driverVars, pc, lockVars, result, inbox, cur,
                   ch, chVal, enqOrder, served, replied, observed>>

\* match accounts.get_mut(&account) { Some(balance) => {..} None => Err(..) }
DepositResult(ledger, msg) ==
    LET g == GetMut(ledger, msg.account)
    IN  IF g.found THEN Ok(AddAssign(g.bal, msg.amount)) ELSE NotFound

\* the ledger after that match
DepositLedger(ledger, msg) ==
    LET g == GetMut(ledger, msg.account)
    IN  IF g.found
        THEN Store(ledger, msg.account, AddAssign(g.bal, msg.amount))
        ELSE ledger

\* mutant: respond_to.send(result).unwrap(): a failed send ends the manager,
\* and with rx gone the reply senders of the queued messages are dropped
RespondToUnwrap(i, res) ==
    IF ch[i] = "open"
    THEN /\ ch' = [ch EXCEPT ![i] = "sent"]
         /\ chVal' = [chVal EXCEPT ![i] = res]
         /\ replied' = Append(replied, i)
         /\ mpc' = "recv"
    ELSE /\ ch' = [j \in DOMAIN ch |->
                     IF \E k \in 1..Len(inbox) : inbox[k].from = j
                     THEN "txdropped" ELSE ch[j]]
         /\ mpc' = "panicked"
         /\ UNCHANGED <<chVal, replied>>

\* let _ = respond_to.send(result): an Err (receiver gone) is discarded
RespondTo(i, res) ==
    /\ IF ch[i] = "open"
       THEN /\ ch' = [ch EXCEPT ![i] = "sent"]
            /\ chVal' = [chVal EXCEPT ![i] = res]
            /\ replied' = Append(replied, i)
       ELSE UNCHANGED <<ch, chVal, replied>>
    /\ mpc' = "recv"

\* the += of the match would leave the range of i32
DepositOverflows(ledger, msg) ==
    LET g == GetMut(ledger, msg.account)
    IN  g.found /\ Overflows(g.bal, msg.amount)

\* the loop body after the sleep: mutate the ledger, answer, loop
MgrProcess ==
    /\ mpc = "sleep"
    /\ served' = Append(served, cur.from)
    /\ IF overflowChecks /\ DepositOverflows(accounts, cur)
       THEN \* "attempt to add with overflow": the manager task panics; rx,
            \* the queued messages and their reply senders are dropped
            /\ mpc' = "panicked"
            /\ ch' = [j \in DOMAIN ch |->
                        IF ch[j] = "open" THEN "txdropped" ELSE ch[j]]
            /\ UNCHANGED <<accounts, chVal, replied>>
       ELSE /\ accounts' = DepositLedger(accounts, cur)
            /\ RespondTo(cur.from, DepositResult(accounts, cur))
    /\ UNCHANGED <<demoVars, inputs, driverVars, pc, lockVars, result, inbox, cur,
                   enqOrder, observed>>

\* A caller gives up before the reply: resp_rx is dropped and the task ends.
Abandon(i) ==
    /\ strategy = "actor"
    /\ pc[i] = "await"
    /\ ch[i] = "open"
    /\ ch' = [ch EXCEPT ![i] = "rxdropped"]
    /\ pc' = [pc EXCEPT ![i] = "done"]
    /\ UNCHANGED <<demoVars, inputs, accounts, driverVars, lockVars, result, inbox, mpc, cur,
                   chVal, enqOrder, served, replied, observed>>

\* ---------------------------------------------------------- specifications
Driver == Spawn \/ Join \/ DropTx \/ AwaitManager

Manager == MgrRecv \/ MgrStop \/ MgrProcess

Caller(i) ==
    /\ i \in Callers
    /\ \/ BasicLock(i) \/ BasicGet(i) \/ BasicAdd(i) \/ BasicReturn(i)
       \/ AsyncLock(i) \/ AsyncSleep(i) \/ AsyncGet(i) \/ AsyncAdd(i) \/ AsyncReturn(i)
       \/ ClientSend(i) \/ ClientRecv(i)

Next ==
    \/ Spawn
    \/ Join
    \/ DropTx
    \/ AwaitManager
    \/ MgrRecv
    \/ MgrStop
    \/ MgrProcess
    \/ \E i \in Callers : BasicLock(i)
    \/ \E i \in Callers : BasicGet(i)
    \/ \E i \in Callers : BasicAdd(i)
    \/ \E i \in Callers : BasicReturn(i)
    \/ \E i \in Callers : AsyncLock(i)
    \/ \E i \in Callers : AsyncSleep(i)
    \/ \E i \in Callers : AsyncGet(i)
    \/ \E i \in Callers : AsyncAdd(i)
    \/ \E i \in Callers : AsyncReturn(i)
    \/ \E i \in Callers : ClientSend(i)
    \/ \E i \in Callers : ClientRecv(i)

Spec == Init /\ [][Next]_vars

\* run_message_passing_example alone, with the amount it deposits (50), every
\* task scheduled fairly: the tokio runtime polls every task that is ready
ExampleAmount == 50

InitActor == Init /\ strategy = "actor" /\ amount = ExampleAmount

NextActor ==
    \/ Spawn
    \/ Join
    \/ DropTx
    \/ AwaitManager
    \/ MgrRecv
    \/ MgrStop
    \/ MgrProcess
    \/ \E i \in Callers : ClientSend(i)
    \/ \E i \in Callers : ClientRecv(i)

Fairness ==
    /\ WF_vars(Driver)
    /\ WF_vars(Manager)
    /\ \A i \in 1..MaxCallers : WF_vars(Caller(i))

FairActor == InitActor /\ [][NextActor]_vars /\ Fairness

\* the same example with callers that may abandon their reply channel
NextAbandon == NextActor \/ \E i \in Callers : Abandon(i)

SpecAbandon == InitActor /\ [][NextAbandon]_vars

\* run_basic_mutex_example and run_async_mutex_example alone, with the
\* amount they deposit, every task scheduled fairly
InitLocks == Init /\ strategy \in {"basic", "async"} /\ amount = ExampleAmount

NextLocks ==
    \/ Spawn
    \/ Join
    \/ \E i \in Callers : BasicLock(i)
    \/ \E i \in Callers : BasicGet(i)
    \/ \E i \in Callers : BasicAdd(i)
    \/ \E i \in Callers : BasicReturn(i)
    \/ \E i \in Callers : AsyncLock(i)
    \/ \E i \in Callers : AsyncSleep(i)
    \/ \E i \in Callers : AsyncGet(i)
    \/ \E i \in Callers : AsyncAdd(i)
    \/ \E i \in Callers : AsyncReturn(i)

FairLocks == InitLocks /\ [][NextLocks]_vars /\ Fairness

\* the examples on a ledger seeded with two accounts, so that a deposit has
\* other balances to leave alone
FrameSeed == [a \in {"Alice", "Carol"} |-> IF a = "Alice" THEN SeedBalance ELSE 0]

InitFrame == InitWith(FrameSeed, Accounts \cup {"Carol"}, {ExampleAmount})

SpecFrame == InitFrame /\ [][Next]_vars

\* the examples with amounts that take the balance to the ends of i32
WideAmounts == {I32Max, I32Min, ExampleAmount}

InitWide == InitWith(NewAccounts, Accounts, WideAmounts)

SpecWide == InitWide /\ [][Next]_vars

TypeOK ==
    /\ strategy \in Strategies
    /\ nCallers \in 1..MaxCallers
    /\ dpc \in {"spawn", "join", "drop", "await_manager", "done", "panicked"}
    /\ \A i \in Callers :
         pc[i] \in {"unspawned", "lock", "sleep", "get", "add", "ret", "send",
                    "await", "done", "panicked"}
    /\ lockOwner \in 0..nCallers
    /\ mpc \in {"none", "recv", "sleep", "stopped", "panicked"}
    /\ DOMAIN accounts = DOMAIN seed
    /\ overflowChecks \in BOOLEAN
    /\ poisoned \in BOOLEAN

\* ============================================= spawn_demo: shared state
\* for i in 0..5 { ... handles.push(tokio::spawn(async move { ... })) }
SsSpawn ==
    /\ ssPc = "spawn"
    /\ taskPc' = [taskPc EXCEPT ![handles] = "lock"]
    /\ handles' = handles + 1
    /\ ssPc' = IF handles + 1 = NumTasks THEN "join" ELSE "spawn"
    /\ UNCHANGED <<counter, lock, taskTmp, taskSaw, awaited, final_count>>
    /\ UNCHANGED <<bankVars, channelVars>>

\* for handle in handles { handle.await.unwrap(); }
SsJoin ==
    /\ ssPc = "join"
    /\ taskPc[awaited] = "done"
    /\ awaited' = awaited + 1
    /\ ssPc' = IF awaited + 1 = NumTasks THEN "final" ELSE "join"
    /\ UNCHANGED <<counter, lock, taskPc, taskTmp, taskSaw, handles, final_count>>
    /\ UNCHANGED <<bankVars, channelVars>>

\* let final_count = counter.lock().await;
SsFinalLock ==
    /\ ssPc = "final"
    /\ lock = Free
    /\ lock' = MainFn
    /\ ssPc' = "read"
    /\ UNCHANGED <<counter, taskPc, taskTmp, taskSaw, handles, awaited, final_count>>
    /\ UNCHANGED <<bankVars, channelVars>>

\* println!("Final counter value: {}", *final_count); the guard drops at the
\* end of the function
SsFinalRead ==
    /\ ssPc = "read"
    /\ final_count' = counter
    /\ lock' = Free
    /\ ssPc' = "done"
    /\ UNCHANGED <<counter, taskPc, taskTmp, taskSaw, handles, awaited>>
    /\ UNCHANGED <<bankVars, channelVars>>

\* mutant: the lock is taken without waiting for it to be free
TaskLockNoWait(i) ==
    /\ taskPc[i] = "lock"
    /\ lock' = i
    /\ taskPc' = [taskPc EXCEPT ![i] = "load"]
    /\ UNCHANGED <<counter, taskTmp, taskSaw, ssPc, handles, awaited, final_count>>
    /\ UNCHANGED <<bankVars, channelVars>>

\* let mut lock = counter.lock().await;
TaskLock(i) ==
    /\ taskPc[i] = "lock"
    /\ lock = Free
    /\ lock' = i
    /\ taskPc' = [taskPc EXCEPT ![i] = "load"]
    /\ UNCHANGED <<counter, taskTmp, taskSaw, ssPc, handles, awaited, final_count>>
    /\ UNCHANGED <<bankVars, channelVars>>

\* *lock += 1, the read
TaskLoad(i) ==
    /\ taskPc[i] = "load"
    /\ taskTmp' = [taskTmp EXCEPT ![i] = counter]
    /\ taskPc' = [taskPc EXCEPT ![i] = "store"]
    /\ UNCHANGED <<counter, lock, taskSaw, ssPc, handles, awaited, final_count>>
    /\ UNCHANGED <<bankVars, channelVars>>

\* *lock += 1, the write
TaskStore(i) ==
    /\ taskPc[i] = "store"
    /\ counter' = taskTmp[i] + 1
    /\ taskPc' = [taskPc EXCEPT ![i] = "print"]
    /\ UNCHANGED <<lock, taskTmp, taskSaw, ssPc, handles, awaited, final_count>>
    /\ UNCHANGED <<bankVars, channelVars>>

\* println!("Task {} incremented counter to {}", i, *lock);
TaskPrint(i) ==
    /\ taskPc[i] = "print"
    /\ taskSaw' = [taskSaw EXCEPT ![i] = counter]
    /\ taskPc' = [taskPc EXCEPT ![i] = "drop"]
    /\ UNCHANGED <<counter, lock, taskTmp, ssPc, handles, awaited, final_count>>
    /\ UNCHANGED <<bankVars, channelVars>>

\* drop(lock); the task then suspends in sleep(100ms)
TaskDrop(i) ==
    /\ taskPc[i] = "drop"
    /\ lock' = Free
    /\ taskPc' = [taskPc EXCEPT ![i] = "sleep"]
    /\ UNCHANGED <<counter, taskTmp, taskSaw, ssPc, handles, awaited, final_count>>
    /\ UNCHANGED <<bankVars, channelVars>>

\* sleep(Duration::from_millis(100)).await returns and the task ends
TaskSleep(i) ==
    /\ taskPc[i] = "sleep"
    /\ taskPc' = [taskPc EXCEPT ![i] = "done"]
    /\ UNCHANGED <<counter, lock, taskTmp, taskSaw, ssPc, handles, awaited, final_count>>
    /\ UNCHANGED <<bankVars, channelVars>>

NextCounter ==
    \/ SsSpawn
    \/ SsJoin
    \/ SsFinalLock
    \/ SsFinalRead
    \/ \E i \in Tasks : TaskLock(i)
    \/ \E i \in Tasks : TaskLoad(i)
    \/ \E i \in Tasks : TaskStore(i)
    \/ \E i \in Tasks : TaskPrint(i)
    \/ \E i \in Tasks : TaskDrop(i)
    \/ \E i \in Tasks : TaskSleep(i)

\* spawn_demo starts with nothing of the bank examples running
InitSpawnDemo ==
    /\ InitWith(NewAccounts, {"Alice"}, {ExampleAmount})
    /\ strategy = "basic"
    /\ nCallers = 1
    /\ overflowChecks

SpecCounter == InitSpawnDemo /\ [][NextCounter]_vars

\* ================================================ spawn_demo: channel
\* let producer = tokio::spawn(async move { ... });
ChSpawnProducer ==
    /\ chPc = "spawnP"
    /\ prodPc' = "send"
    /\ chPc' = "spawnC"
    /\ UNCHANGED <<queue, prodI, consPc, received, sent, backlog>>
    /\ UNCHANGED <<bankVars, counterVars>>

\* let consumer = tokio::spawn(async move { ... });
ChSpawnConsumer ==
    /\ chPc = "spawnC"
    /\ consPc' = "recv"
    /\ chPc' = "awaitP"
    /\ UNCHANGED <<queue, prodPc, prodI, received, sent, backlog>>
    /\ UNCHANGED <<bankVars, counterVars>>

\* producer.await.unwrap(): panics if the producer task panicked
ChAwaitProducer ==
    /\ chPc = "awaitP"
    /\ prodPc \in {"done", "panicked"}
    /\ chPc' = IF prodPc = "panicked" THEN "panicked" ELSE "awaitC"
    /\ UNCHANGED <<queue, prodPc, prodI, consPc, received, sent, backlog>>
    /\ UNCHANGED <<bankVars, counterVars>>

\* consumer.await.unwrap();
ChAwaitConsumer ==
    /\ chPc = "awaitC"
    /\ consPc = "done"
    /\ chPc' = "done"
    /\ UNCHANGED <<queue, prodPc, prodI, consPc, received, sent, backlog>>
    /\ UNCHANGED <<bankVars, counterVars>>

\* tx is owned by the producer task and dropped when the task ends; rx is
\* owned by the consumer task and dropped when that task ends
TxDropped == prodPc \in {"done", "panicked"}
RxClosed == consPc = "done"

Max(a, b) == IF a >= b THEN a ELSE b

\* tx.send(i).await.unwrap(): waits for room in the buffer, Err (and the
\* unwrap panics) when the receiver is gone
ProdSend ==
    /\ prodPc = "send"
    /\ IF RxClosed
       THEN /\ prodPc' = "panicked"
            /\ UNCHANGED <<queue, sent, backlog>>
       ELSE /\ Len(queue) < DemoChannelCapacity
            /\ queue' = Append(queue, prodI)
            /\ sent' = Append(sent, prodI)
            /\ backlog' = Max(backlog, Len(queue) + 1)
            /\ prodPc' = "print"
    /\ UNCHANGED <<prodI, consPc, received, chPc>>
    /\ UNCHANGED <<bankVars, counterVars>>

\* println!("Produced: {}", i); the task then suspends in sleep(100ms)
ProdPrint ==
    /\ prodPc = "print"
    /\ prodPc' = "sleep"
    /\ UNCHANGED <<queue, prodI, consPc, received, sent, backlog, chPc>>
    /\ UNCHANGED <<bankVars, counterVars>>

\* the sleep returns; next i of for i in 0..5, or the task ends
ProdWake ==
    /\ prodPc = "sleep"
    /\ prodI' = prodI + 1
    /\ prodPc' = IF prodI + 1 = NumValues THEN "done" ELSE "send"
    /\ UNCHANGED <<queue, consPc, received, sent, backlog, chPc>>
    /\ UNCHANGED <<bankVars, counterVars>>

\* while let Some(value) = rx.recv().await
ConsRecv ==
    /\ consPc = "recv"
    /\ queue # <<>>
    /\ received' = Append(received, Head(queue))
    /\ queue' = Tail(queue)
    /\ consPc' = "print"
    /\ UNCHANGED <<prodPc, prodI, sent, backlog, chPc>>
    /\ UNCHANGED <<bankVars, counterVars>>

\* mutant: recv gives None as soon as the sender is gone
ConsClosedEarly ==
    /\ consPc = "recv"
    /\ TxDropped
    /\ consPc' = "done"
    /\ UNCHANGED <<queue, prodPc, prodI, received, sent, backlog, chPc>>
    /\ UNCHANGED <<bankVars, counterVars>>

\* rx.recv().await gives None: the buffer is empty and every sender is gone
ConsClosed ==
    /\ consPc = "recv"
    /\ queue = <<>>
    /\ TxDropped
    /\ consPc' = "done"
    /\ UNCHANGED <<queue, prodPc, prodI, received, sent, backlog, chPc>>
    /\ UNCHANGED <<bankVars, counterVars>>

\* println!("Consumed: {}", value); the task then suspends in sleep(200ms)
ConsPrint ==
    /\ consPc = "print"
    /\ consPc' = "sleep"
    /\ UNCHANGED <<queue, prodPc, prodI, received, sent, backlog, chPc>>
    /\ UNCHANGED <<bankVars, counterVars>>

\* the sleep returns, back to rx.recv()
ConsWake ==
    /\ consPc = "sleep"
    /\ consPc' = "recv"
    /\ UNCHANGED <<queue, prodPc, prodI, received, sent, backlog, chPc>>
    /\ UNCHANGED <<bankVars, counterVars>>

ChannelFn == ChSpawnProducer \/ ChSpawnConsumer \/ ChAwaitProducer \/ ChAwaitConsumer
Producer == ProdSend \/ ProdPrint \/ ProdWake
Consumer == ConsRecv \/ ConsClosed \/ ConsPrint \/ ConsWake

NextChannel ==
    \/ ChSpawnProducer
    \/ ChSpawnConsumer
    \/ ChAwaitProducer
    \/ ChAwaitConsumer
    \/ ProdSend
    \/ ProdPrint
    \/ ProdWake
    \/ ConsRecv
    \/ ConsClosed
    \/ ConsPrint
    \/ ConsWake

\* the tokio scheduler lets every task that can run take its next step
FairChannel ==
    /\ InitSpawnDemo
    /\ [][NextChannel]_vars
    /\ WF_vars(ChannelFn)
    /\ WF_vars(Producer)
    /\ WF_vars(Consumer)

\* ============================================================== properties
Range(s) == {s[k] : k \in 1..Len(s)}
NoDup(s) == \A k, m \in 1..Len(s) : s[k] = s[m] => k = m
IsPrefix(s, t) == Len(s) <= Len(t) /\ \A k \in 1..Len(s) : s[k] = t[k]
Pos(s, i) == CHOOSE k \in 1..Len(s) : s[k] = i

KnownAcct(i) == acct[i] \in DOMAIN seed
AllKnown == \A i \in Callers : KnownAcct(i)
AllCallersDone == \A i \in Callers : pc[i] = "done"

\* C1: no lost updates. Once all N callers, each depositing the amount A to
\* the seeded account, have finished, the balance is exactly B + N*A, in
\* every strategy and every interleaving.
C1_NoLostUpdates ==
    (AllCallersDone /\ AllKnown) =>
        accounts["Alice"] = SeedBalance + nCallers * amount

C1_Witness ==
    /\ AllCallersDone /\ AllKnown
    /\ strategy = "basic"
    /\ nCallers = MaxCallers
    /\ amount = -10
    /\ accounts["Alice"] = SeedBalance + nCallers * amount

\* Caller i's deposit call is being executed: it holds the lock, or the
\* manager is working on its message.
InDeposit(i) ==
    \/ lockOwner = i
    \/ mpc = "sleep" /\ cur.from = i

\* C2: a deposit naming an identifier absent from the ledger returns the
\* not-found outcome and leaves the ledger (key set and every balance) as it
\* was, whatever other deposits run around it.
C2_NotFoundNoOp ==
    [][\A i \in Callers :
          ~KnownAcct(i) =>
              /\ InDeposit(i) => accounts' = accounts
              /\ pc'[i] = "done" => result'[i] = NotFound]_vars

C2_Witness ==
    \E i, j \in Callers :
        /\ ~KnownAcct(i) /\ pc[i] = "done" /\ result[i] = NotFound
        /\ KnownAcct(j) /\ pc[j] = "done" /\ result[j].kind = "ok"

InCriticalSection(i) == pc[i] \in {"sleep", "get", "add", "ret"}

\* C3: in the suspending-lock strategy at most one caller of process_deposit
\* is between acquiring the lock and returning, the holder's sleep included,
\* and that caller is the lock's holder.
C3_AsyncMutualExclusion ==
    strategy = "async" =>
        /\ Cardinality({i \in Callers : InCriticalSection(i)}) <= 1
        /\ \A i \in Callers : InCriticalSection(i) => lockOwner = i

C3_Witness ==
    /\ strategy = "async"
    /\ \E i, j \in Callers : i # j /\ pc[i] = "sleep" /\ pc[j] = "lock"

\* C4: the actor sends its replies in the order the requests were enqueued,
\* and when every deposit names the one known account the k-th enqueued
\* request is answered with B + k*A.
C4_RepliesInEnqueueOrder ==
    strategy = "actor" =>
        /\ IsPrefix(replied, enqOrder)
        /\ AllKnown =>
             \A k \in 1..Len(replied) :
                 chVal[replied[k]] = Ok(SeedBalance + k * amount)

C4_Witness ==
    /\ strategy = "actor"
    /\ AllKnown
    /\ Len(replied) >= 2
    /\ enqOrder[1] # 1

\* C5 as stated: the order in which the clients resume with their outcomes
\* equals the order in which their requests were enqueued.
C5_ObservedInSubmissionOrder ==
    strategy = "actor" => IsPrefix(observed, enqOrder)

\* C5 as amended: a client resumes only with a reply that was sent, and by
\* then every request enqueued before its own has been answered too; each
\* client resumes at most once, and all of them have once all are done.
C5_ObservedAfterEarlierReplies ==
    strategy = "actor" =>
        /\ NoDup(observed)
        /\ \A i \in Range(observed) :
               /\ i \in Range(replied)
               /\ \A k \in 1..Pos(enqOrder, i) : enqOrder[k] \in Range(replied)
        /\ AllCallersDone => Range(observed) = Callers

C5_Witness ==
    /\ strategy = "actor"
    /\ AllCallersDone
    /\ ~IsPrefix(observed, enqOrder)

\* The quiescent end of run_message_passing_example.
Quiescent ==
    /\ dpc = "done"
    /\ AllCallersDone
    /\ mpc = "stopped"
    /\ inbox = <<>>
    /\ TxHandles = 0

\* C6: once every producer handle is dropped and the driver awaits the
\* actor, the actor reaches Stopped; Stopped is never left, and from then on
\* the ledger does not change and no reply is sent.
C6_ActorShutdown ==
    /\ (dpc = "await_manager") ~> (mpc = "stopped")
    /\ [][mpc = "stopped" =>
            /\ mpc' = "stopped"
            /\ accounts' = accounts
            /\ <<ch, chVal, replied, served>>' = <<ch, chVal, replied, served>>]_vars

C6_Witness ==
    /\ mpc = "stopped"
    /\ dpc = "done"
    /\ nCallers = MaxCallers
    /\ Len(replied) = nCallers

\* C7: under fair scheduling every run of run_message_passing_example ends
\* quiescent: all clients done, the driver's tx dropped, the actor stopped
\* and the driver's await of the actor returned.
C7_ShutdownTerminates == <>[]Quiescent

C7_Witness ==
    /\ Quiescent
    /\ nCallers = MaxCallers
    /\ \E i \in Callers : ~KnownAcct(i)

\* The outcome of caller i's own request, given the order in which the
\* requests were executed.
OwnOutcome(i) ==
    IF KnownAcct(i)
    THEN Ok(SeedBalance + amount *
              Cardinality({k \in 1..Pos(served, i) : KnownAcct(served[k])}))
    ELSE NotFound

\* C8: every enqueued request is consumed once, answered once on its own
\* reply channel and read once by the client that made the channel; what a
\* client reads is the outcome of its own request; the actor does not stop
\* with a request unanswered.
C8_ExactlyOnce ==
    strategy = "actor" =>
        /\ NoDup(enqOrder) /\ NoDup(served) /\ NoDup(replied) /\ NoDup(observed)
        /\ Range(observed) \subseteq Range(replied)
        /\ Range(replied) \subseteq Range(served)
        /\ Range(served) \subseteq Range(enqOrder)
        /\ \A i \in Range(replied) : chVal[i] = OwnOutcome(i)
        /\ \A i \in Callers :
               /\ i \in Range(observed) <=> ch[i] = "read"
               /\ i \in Range(observed) => result[i] = OwnOutcome(i)
               /\ i \notin Range(observed) => result[i] = NoResult
        /\ mpc = "stopped" => Range(replied) = Range(enqOrder)
        /\ AllCallersDone => Range(observed) = Callers

C8_Witness ==
    /\ strategy = "actor"
    /\ AllCallersDone
    /\ nCallers = MaxCallers
    /\ \E i, j \in Callers : result[i] = NotFound /\ result[j].kind = "ok"
    /\ observed # enqOrder

Abandoned(i) == ch[i] = "rxdropped"

\* The end of a run in which callers may have abandoned.
QuiescentAbandon ==
    /\ Quiescent
    /\ \A i \in Callers : ~Abandoned(i) => ch[i] = "read"

\* C9: when a caller has dropped its reply receiver, the actor's failed send
\* is discarded and the actor keeps running; nobody fails, every other
\* request is executed and answered with its own outcome, and the run cannot
\* get stuck short of its quiescent end.
C9_AbandonedReply ==
    (\E a \in Callers : Abandoned(a)) =>
        /\ mpc \in {"recv", "sleep", "stopped"}
        /\ dpc # "panicked"
        /\ \A i \in Callers : pc[i] # "panicked"
        /\ \A i \in Range(served) :
               Abandoned(i) \/ (i \in Range(replied) /\ chVal[i] = OwnOutcome(i))
        /\ \A i \in Callers :
               (i \in Range(observed) /\ ~Abandoned(i)) => result[i] = OwnOutcome(i)
        /\ mpc = "stopped" => Range(served) = Range(enqOrder)
        /\ QuiescentAbandon \/ ENABLED NextAbandon

C9_Witness ==
    \E a, i \in Callers :
        /\ Abandoned(a)
        /\ a \in Range(served) /\ i \in Range(served)
        /\ Pos(served, a) < Pos(served, i)
        /\ result[i].kind = "ok"
        /\ QuiescentAbandon

\* The end of a run of one of the lock examples.
LockRunDone == dpc = "done" /\ AllCallersDone /\ lockOwner = 0

\* C10: a not-found outcome stops nothing. Once some deposit has come back
\* not-found, the lock is not left held by a caller that has returned, the
\* actor is still running (it stops only at the closed inbox), every deposit
\* to the known account that has returned succeeded with the balance its
\* place in the execution order gives, and the run cannot get stuck.
C10_NotFoundStopsNothing ==
    (\E n \in Range(served) : ~KnownAcct(n)) =>
        /\ lockOwner # 0 => pc[lockOwner] \in {"sleep", "get", "add", "ret"}
        /\ mpc = "stopped" => (InboxClosed /\ Range(replied) = Callers)
        /\ \A i \in Callers : pc[i] # "panicked"
        /\ \A i \in Callers :
               (KnownAcct(i) /\ pc[i] = "done") => result[i] = OwnOutcome(i)
        /\ \/ ENABLED Next
           \/ IF strategy = "actor" THEN Quiescent ELSE LockRunDone

C10_Witness ==
    \E n, i \in Callers :
        /\ ~KnownAcct(n) /\ KnownAcct(i)
        /\ n \in Range(served) /\ i \in Range(served)
        /\ Pos(served, n) < Pos(served, i)
        /\ pc[n] = "done" /\ pc[i] = "done"
        /\ result[n] = NotFound
        /\ result[i] = OwnOutcome(i)
        /\ strategy = "basic"

\* The step about to be taken decides the outcome of caller i's deposit.
Deciding(i) ==
    IF strategy = "actor"
    THEN mpc = "sleep" /\ cur.from = i
    ELSE pc[i] \in {"get", "add"}

\* The outcome caller i's deposit has produced.
Outcome(i) == IF strategy = "actor" THEN chVal[i] ELSE result[i]

\* C13: every deposit ends in one of two outcomes, in every strategy: success
\* carrying the new balance, which is the old balance plus the amount, or
\* not-found; for every balance and amount in the i32 range, sums that leave
\* the range included (no i32 equals such a sum, so the claim fails there).
C13_TwoOutcomes ==
    [][\A i \in Callers :
          (Deciding(i) /\ ~Deciding(i)') =>
              LET old == GetMut(accounts, acct[i])
              IN  \/ /\ ~old.found
                     /\ Outcome(i)' = NotFound
                     /\ accounts' = accounts
                  \/ /\ old.found
                     /\ ~Overflows(old.bal, amount)
                     /\ Outcome(i)' = Ok(old.bal + amount)
                     /\ accounts'[acct[i]] = old.bal + amount]_vars

KnownCallers == {i \in Callers : KnownAcct(i)}

\* C11: the three strategies implement one contract. For the same seed and
\* workload each of them ends with the same ledger and the same multiset of
\* outcomes, which the inputs alone fix: with K deposits of A to Alice the
\* ledger is {Alice: B + K*A}, the successes carry B + A, .., B + K*A once
\* each, and exactly the deposits to an absent identifier are not-found.
C11_StrategiesAgree ==
    AllCallersDone =>
        LET K == Cardinality(KnownCallers)
        IN  /\ accounts = [a \in {"Alice"} |-> SeedBalance + K * amount]
            /\ {result[i] : i \in KnownCallers}
                   = {Ok(SeedBalance + k * amount) : k \in 1..K}
            /\ \A i \in Callers \ KnownCallers : result[i] = NotFound

\* the scenario of the specification: seed {Alice: 100}, three deposits of 50
C11_Witness ==
    /\ strategy = "async"
    /\ AllCallersDone /\ AllKnown
    /\ nCallers = 3
    /\ amount = ExampleAmount
    /\ accounts["Alice"] = 250
    /\ {result[i] : i \in Callers} = {Ok(150), Ok(200), Ok(250)}

\* C12: BasicBank::deposit holds the lock only from lock() to its return and
\* never across a suspension: no caller of the exclusive-lock strategy is
\* ever suspended holding the lock, the holder is a caller inside deposit,
\* and the lock is free whenever no caller is inside deposit, after a
\* success as after a not-found.
C12_BasicLockScope ==
    strategy = "basic" =>
        /\ \A i \in Callers : pc[i] # "sleep"
        /\ lockOwner # 0 => pc[lockOwner] \in {"get", "add", "ret"}
        /\ \A i \in Callers : pc[i] \in {"get", "add", "ret"} => lockOwner = i
        /\ (\A i \in Callers : pc[i] \notin {"get", "add", "ret"}) => lockOwner = 0

C12_Witness ==
    /\ strategy = "basic"
    /\ lockOwner = 0
    /\ \E i, j, k \in Callers :
          /\ pc[i] = "done" /\ result[i] = NotFound
          /\ pc[j] = "done" /\ result[j].kind = "ok"
          /\ pc[k] = "lock"

\* The callers whose message sits in the inbox.
Queued == {inbox[k].from : k \in 1..Len(inbox)}

\* The requests the actor has taken from the inbox and not yet finished.
InFlight == (Range(enqOrder) \ Queued) \ Range(served)

\* C14: the actor works on one request at a time. At most one request is
\* taken from the inbox and unfinished, it is the one the manager sleeps on,
\* none is while the manager waits in recv, and a caller ready to enqueue
\* can do so while a request is in flight.
C14_OneInFlight ==
    strategy = "actor" =>
        /\ Cardinality(InFlight) <= 1
        /\ mpc = "sleep" => InFlight = {cur.from}
        /\ mpc # "sleep" => InFlight = {}
        /\ \A i \in Callers :
               (mpc = "sleep" /\ pc[i] = "send") => ENABLED ClientSend(i)

C14_Witness ==
    /\ strategy = "actor"
    /\ mpc = "sleep"
    /\ Len(inbox) >= 1
    /\ \E i \in Callers : pc[i] = "send"

\* C15: the actor is Stopped only with the inbox closed and drained: every
\* producer handle is dropped (all clients ended and the driver past
\* drop(tx)), the inbox is empty, and every request ever enqueued has been
\* executed and answered.
C15_StoppedOnlyWhenClosed ==
    mpc = "stopped" =>
        /\ TxHandles = 0
        /\ dpc \in {"await_manager", "done"}
        /\ \A i \in Callers : pc[i] = "done"
        /\ inbox = <<>>
        /\ Range(enqOrder) = Callers
        /\ Range(served) = Range(enqOrder)
        /\ Range(replied) = Range(enqOrder)

C15_Witness ==
    /\ mpc = "stopped"
    /\ dpc = "await_manager"
    /\ nCallers = MaxCallers
    /\ Len(replied) = nCallers

\* C16: in run_message_passing_example neither unwrap of a client fires. A
\* client about to send finds the manager running and fewer than 32 (at most
\* N - 1) messages queued, no reply sender is dropped without a reply, and
\* no client and not the driver panics.
C16_ClientsNeverFail ==
    strategy = "actor" =>
        /\ Len(inbox) <= nCallers
        /\ Len(inbox) <= ChannelCapacity
        /\ \A i \in Callers :
               /\ pc[i] # "panicked"
               /\ ch[i] # "txdropped"
               /\ pc[i] = "send" =>
                      (~RxDropped /\ Len(inbox) < nCallers
                                 /\ Len(inbox) < ChannelCapacity)
               /\ pc[i] = "await" => ~RxDropped
        /\ dpc # "panicked"
        /\ mpc # "panicked"

C16_Witness ==
    /\ strategy = "actor"
    /\ Len(inbox) = nCallers - 1
    /\ nCallers = MaxCallers
    /\ \E i \in Callers : pc[i] = "send"
    /\ mpc = "recv"

\* C17: under fair scheduling a run of a lock example ends: every one of
\* the N callers has acquired the lock, done its deposit and released the
\* lock, and the driver has returned, which it does only after all N tasks
\* have completed.
C17_LockRunsTerminate ==
    /\ <>[](LockRunDone /\ Range(served) = Callers)
    /\ [](dpc = "done" => AllCallersDone)

C17_Witness ==
    /\ LockRunDone
    /\ strategy = "async"
    /\ nCallers = MaxCallers
    /\ Range(served) = Callers
    /\ served[1] = nCallers

\* The caller whose deposit a step that writes the ledger belongs to.
Executor == IF strategy = "actor" THEN cur.from ELSE lockOwner

\* C18: the frame of a deposit. The ledger's identifiers are always the
\* seeded ones (no deposit adds or removes an account, an absent identifier
\* gets no balance), and a step that changes the ledger is a deposit to a
\* seeded account that changes that account's balance alone.
C18_Frame ==
    /\ [](DOMAIN accounts = DOMAIN seed)
    /\ [][accounts' # accounts =>
            /\ KnownAcct(Executor)
            /\ accounts'[acct[Executor]] = accounts[acct[Executor]] + amount
            /\ \A a \in DOMAIN accounts \ {acct[Executor]} :
                   a \in DOMAIN accounts' /\ accounts'[a] = accounts[a]]_vars

C18_Witness ==
    /\ AllCallersDone
    /\ nCallers = MaxCallers
    /\ accounts["Alice"] = SeedBalance + amount
    /\ accounts["Carol"] = amount
    /\ \E i \in Callers : result[i] = NotFound

\* Tasks that have completed *lock += 1, and tasks that have printed.
Incremented == {i \in Tasks : taskPc[i] \in {"print", "drop", "sleep", "done"}}
Printed == {i \in Tasks : taskPc[i] \in {"drop", "sleep", "done"}}
AllTasksDone == \A i \in Tasks : taskPc[i] = "done"

\* C19: in shared_state_example a task reads, writes and prints the counter
\* only while it holds the lock, and has released it when it sleeps; the
\* counter is the number of tasks that have incremented, so each of the 5
\* tasks increments once; the printed values are distinct, and are 1..5 once
\* all tasks are done; the function reads the final value only after all
\* tasks are done, and reads 5.
C19_SharedCounter ==
    /\ \A i \in Tasks : taskPc[i] \in {"load", "store", "print", "drop"} => lock = i
    /\ \A i \in Tasks : taskPc[i] \in {"sleep", "done"} => lock # i
    /\ counter = Cardinality(Incremented)
    /\ \A i \in Printed : taskSaw[i] \in 1..NumTasks
    /\ \A i, j \in Printed : i # j => taskSaw[i] # taskSaw[j]
    /\ AllTasksDone => {taskSaw[i] : i \in Tasks} = 1..NumTasks
    /\ ssPc \in {"final", "read", "done"} => AllTasksDone
    /\ ssPc = "done" => final_count = NumTasks /\ lock = Free

C19_Witness ==
    /\ ssPc = "done"
    /\ final_count = NumTasks
    /\ taskSaw[0] = NumTasks
    /\ taskSaw[NumTasks - 1] = 1

\* 0, 1, 2, 3, 4: what the producer's loop sends
AllValues == [k \in 1..NumValues |-> k - 1]
ChannelDone == chPc = "done" /\ prodPc = "done" /\ consPc = "done"

\* C20: in channel_example the values received followed by the values still
\* buffered are always the values sent, which are a prefix of 0,1,2,3,4, so
\* the consumer receives them in sending order, each once; the consumer's
\* loop has ended only if the producer task has finished and the buffer is
\* empty, and then it has received all five; and under fair scheduling both
\* tasks and the function finish, with 0,1,2,3,4 received.
C20_ChannelDelivery ==
    /\ [](received \o queue = sent /\ IsPrefix(sent, AllValues))
    /\ [](consPc = "done" => prodPc = "done" /\ queue = <<>> /\ received = AllValues)
    /\ <>[](ChannelDone /\ received = AllValues)

C20_Witness ==
    /\ ChannelDone
    /\ received = AllValues
    /\ backlog = NumValues

====
